---- MODULE Spec2Model ----
(***************************************************************************)
(* Model of convert.py: the export of Anki notes to Markdown files.        *)
(*                                                                         *)
(* Strings are sequences of Unicode code points.  Python indices are       *)
(* 0-based; s[i] in Python is s[i + 1] here.                               *)
(***************************************************************************)
EXTENDS Integers, Sequences, FiniteSets, TLC

VARIABLES
    pc,             \* position of main: "start", "deck", "note", "done"
    deck_names,     \* result of get_deck_names()
    deck_index,     \* index (1-based) of the deck the for loop is at
    deck_name,      \* the loop variable deck_name
    notes,          \* result of get_notes_in_deck(deck_name)
    note_index,     \* index (1-based) of the next note of the inner loop
    directory_path, \* directory of the current deck, a sequence of components
    title_counts,   \* the dict title_counts, a function base_filename -> count
    title,          \* the local variable title: [bound, value]
    files,          \* file system: normalised path -> file content
    dirs,           \* file system: set of directories created
    requests,       \* number of requests posted to AnkiConnect
    error,          \* "none", "api" (raised by anki_connect), "name" (unbound local)
    last_print,     \* the last message printed
    log,            \* history: notes of the current deck processed so far
    probe           \* harness of the pure functions: argument(s) and result

vars == <<pc, deck_names, deck_index, deck_name, notes, note_index,
          directory_path, title_counts, title, files, dirs, requests,
          error, last_print, log, probe>>

mainVars == <<pc, deck_names, deck_index, deck_name, notes, note_index,
              directory_path, title_counts, title, files, dirs, requests,
              error, last_print, log>>

(***************************************************************************)
(* Bounds.                                                                 *)
(***************************************************************************)
MaxNameLen == 3     \* longest argument of sanitize_filename explored
MaxTitleLen == 5    \* longest argument of truncate_title explored
MaxDecks == 2       \* most decks returned by deckNames
MaxNotes == 3       \* most notes returned by notesInfo

(***************************************************************************)
(* Characters and string literals of the program.                          *)
(***************************************************************************)
SPACE == 32
UNDERSCORE == 95
NEWLINE == 10

STR_unnamed == <<117, 110, 110, 97, 109, 101, 100>>
STR_Note_ == <<78, 111, 116, 101, 95>>
STR_md == <<46, 109, 100>>
STR_hash == <<35, 32>>
STR_sep == <<58, 58>>
STR_dot == <<46>>
STR_dotdot == <<46, 46>>
output_dir == <<109, 97, 114, 107, 100, 111, 119, 110, 95, 111, 117, 116, 112, 117, 116>>
MAX_LENGTH == 200

(***************************************************************************)
(* Generic string helpers (Python built-ins).                              *)
(***************************************************************************)
SeqsUpTo(S, n) == UNION {[1..k -> S] : k \in 0..n}

NoProbe == [op |-> "none"]

\* s[a:b] for 0 <= a, 0 <= b (Python slice, clamped to the string)
Slice(s, a, b) ==
    LET hi == IF b < Len(s) THEN b ELSE Len(s)
    IN  IF a >= hi THEN <<>> ELSE SubSeq(s, a + 1, hi)

\* s.rfind(ch, start, end): highest 0-based index i, start <= i < min(end, len), -1 if none
rfind(s, ch, start, end) ==
    LET hi == IF end < Len(s) THEN end ELSE Len(s)
        hits == {i \in start..(hi - 1) : s[i + 1] = ch}
    IN  IF hits = {} THEN -1 ELSE CHOOSE i \in hits : \A j \in hits : j <= i

\* s.strip(chars): drop leading and trailing characters that are in chars
RECURSIVE lstrip(_, _)
lstrip(s, chars) ==
    IF s # <<>> /\ Head(s) \in chars THEN lstrip(Tail(s), chars) ELSE s

RECURSIVE rstrip(_, _)
rstrip(s, chars) ==
    IF s # <<>> /\ s[Len(s)] \in chars THEN rstrip(SubSeq(s, 1, Len(s) - 1), chars) ELSE s

strip(s, chars) == rstrip(lstrip(s, chars), chars)

\* str(n) for a natural number n
RECURSIVE str(_)
str(n) == IF n < 10 THEN <<48 + n>> ELSE str(n \div 10) \o <<48 + (n % 10)>>

\* s.split("::"): left to right, non-overlapping
RECURSIVE splitFrom(_, _)
splitFrom(s, cur) ==
    IF s = <<>> THEN <<cur>>
    ELSE IF Len(s) >= 2 /\ SubSeq(s, 1, 2) = STR_sep
         THEN <<cur>> \o splitFrom(SubSeq(s, 3, Len(s)), <<>>)
         ELSE splitFrom(Tail(s), Append(cur, Head(s)))

split(s) == splitFrom(s, <<>>)

(***************************************************************************)
(* sanitize_filename                                                       *)
(***************************************************************************)
\* re.match('[a-zA-Z0-9\-_.À-ſ]', c)
allowed_chars(c) ==
    \/ c \in 97..122
    \/ c \in 65..90
    \/ c \in 48..57
    \/ c \in {45, 95, 46}
    \/ c \in 192..383

\* name.replace(" ", "_")
replace_spaces(name) ==
    [i \in 1..Len(name) |-> IF name[i] = SPACE THEN UNDERSCORE ELSE name[i]]

\* ''.join(c if re.match(...) else '_' for c in name)
replace_disallowed(name) ==
    [i \in 1..Len(name) |-> IF allowed_chars(name[i]) THEN name[i] ELSE UNDERSCORE]

\* re.sub(r'_+', '_', s)
RECURSIVE collapse_underscores(_)
collapse_underscores(s) ==
    IF Len(s) < 2 THEN s
    ELSE IF s[1] = UNDERSCORE /\ s[2] = UNDERSCORE
         THEN collapse_underscores(Tail(s))
         ELSE <<s[1]>> \o collapse_underscores(Tail(s))

sanitize_nostrip(name) ==
    LET sanitized == collapse_underscores(replace_disallowed(replace_spaces(name)))
    IN  IF sanitized = <<>> THEN STR_unnamed ELSE sanitized

sanitize_filename(name) ==
    LET sanitized == strip(collapse_underscores(replace_disallowed(replace_spaces(name))),
                           {UNDERSCORE})
    IN  IF sanitized = <<>> THEN STR_unnamed ELSE sanitized

(***************************************************************************)
(* truncate_title                                                          *)
(***************************************************************************)
truncate_title_inclusive(t, max_length) ==
    IF Len(t) <= max_length THEN t
    ELSE LET space_index == rfind(t, SPACE, 0, max_length + 1)
         IN  IF space_index # -1 THEN Slice(t, 0, space_index)
             ELSE Slice(t, 0, max_length)

truncate_title_unbounded(t, max_length) ==
    IF Len(t) <= max_length THEN t
    ELSE LET space_index == rfind(t, SPACE, 0, Len(t))
         IN  IF space_index # -1 THEN Slice(t, 0, space_index)
             ELSE Slice(t, 0, max_length)

truncate_title(t, max_length) ==
    IF Len(t) <= max_length THEN t
    ELSE LET space_index == rfind(t, SPACE, 0, max_length)
         IN  IF space_index # -1 THEN Slice(t, 0, space_index)
             ELSE Slice(t, 0, max_length)

(***************************************************************************)
(* clean_field: html2text followed by strip().  The fields explored hold   *)
(* text without markup and without runs of whitespace; html2text renders   *)
(* such a field as the text followed by a paragraph break.                 *)
(***************************************************************************)
Whitespace == {32, 9, 10, 11, 12, 13}

handle(field) == field \o <<NEWLINE, NEWLINE>>

clean_field(field) == strip(handle(field), Whitespace)

(***************************************************************************)
(* File system: os.path.join, os.path.normpath, os.makedirs, open/write.   *)
(***************************************************************************)
RECURSIVE normInto(_, _)
normInto(stack, comps) ==
    IF comps = <<>> THEN stack
    ELSE LET c == Head(comps)
         IN  IF c = STR_dot THEN normInto(stack, Tail(comps))
             ELSE IF c = STR_dotdot /\ stack # <<>> /\ stack[Len(stack)] # STR_dotdot
                  THEN normInto(SubSeq(stack, 1, Len(stack) - 1), Tail(comps))
                  ELSE normInto(Append(stack, c), Tail(comps))

\* the path a sequence of components resolves to, relative to the working directory
normpath(comps) == normInto(<<>>, comps)

\* os.makedirs(path, exist_ok=True): the directory and every missing ancestor
makedirs(path) == {normpath(SubSeq(path, 1, k)) : k \in 1..Len(path)}

\* f.write(f"# {title}\n\n{content}\n")
file_text(t, content) == STR_hash \o t \o <<NEWLINE, NEWLINE>> \o content \o <<NEWLINE>>

(***************************************************************************)
(* AnkiConnect.  A response is a transport failure, or a JSON body with an *)
(* error marker, or a JSON body with a result.                             *)
(***************************************************************************)
Responses(R) ==
    {[transport_ok |-> FALSE, error |-> FALSE, result |-> <<>>],
     [transport_ok |-> TRUE, error |-> TRUE, result |-> <<>>]}
    \cup {[transport_ok |-> TRUE, error |-> FALSE, result |-> r] : r \in R}

\* anki_connect: raises on a transport failure and on an error marker
anki_connect(response) ==
    IF ~response.transport_ok THEN [raised |-> TRUE, value |-> <<>>]
    ELSE IF response.error THEN [raised |-> TRUE, value |-> <<>>]
    ELSE [raised |-> FALSE, value |-> response.result]

\* "a::b c", "::.."
DeckNames == {<<97, 58, 58, 98, 32, 99>>, <<58, 58, 46, 46>>}

DeckNameLists == SeqsUpTo(DeckNames, MaxDecks)

\* " Note " followed by "a"s: after strip() one character longer than MAX_LENGTH
LongFront ==
    [i \in 1..(MAX_LENGTH + 2) |->
        IF i \in {1, 6} THEN SPACE ELSE IF i \in 2..5 THEN STR_Note_[i - 1] ELSE 97]

\* Front absent (or empty) with Back "b"; the long Front without Back
Fields ==
    {[front |-> <<>>, back |-> <<98>>],
     [front |-> LongFront, back |-> <<>>]}

\* the notes of a notesInfo result; the i-th note has noteId i
NoteLists ==
    UNION {{[i \in 1..k |-> [noteId |-> i, front |-> f[i].front, back |-> f[i].back]] :
              f \in [1..k -> Fields]} : k \in 0..MaxNotes}

\* results of findNotes: no identifier, or some (the identifiers are only passed on)
FindNotesResults == {<<>>, <<1>>}

(***************************************************************************)
(* main                                                                    *)
(***************************************************************************)
Init ==
    /\ pc = "start"
    /\ deck_names = <<>>
    /\ deck_index = 0
    /\ deck_name = <<>>
    /\ notes = <<>>
    /\ note_index = 0
    /\ directory_path = <<>>
    /\ title_counts = <<>>
    /\ title = [bound |-> FALSE, value |-> <<>>]
    /\ files = <<>>
    /\ dirs = {<<>>}
    /\ requests = 0
    /\ error = "none"
    /\ last_print = "none"
    /\ log = <<>>
    /\ probe = NoProbe

\* the next iteration of "for deck_name in deck_names", or the end of main
NextDeck ==
    /\ deck_index' = deck_index + 1
    /\ pc' = IF deck_index < Len(deck_names) THEN "deck" ELSE "done"

CatchContinue(kind) ==
    /\ error' = kind
    /\ last_print' = "error"
    /\ IF pc = "start" THEN pc' = "done" /\ deck_index' = deck_index ELSE NextDeck
    /\ UNCHANGED <<deck_names, notes, note_index, directory_path, title_counts, dirs>>

\* except Exception as e: print(f"Error: {e}"), then main returns
Catch(kind) ==
    /\ error' = kind
    /\ last_print' = "error"
    /\ pc' = "done"
    /\ UNCHANGED <<deck_index, deck_names, notes, note_index, directory_path,
                   title_counts, dirs>>

\* deck_names = get_deck_names(); the empty check; os.makedirs(output_dir)
Start ==
    /\ pc = "start"
    /\ \E response \in Responses(DeckNameLists) :
          LET r == anki_connect(response)
          IN  /\ requests' = requests + 1
              /\ IF r.raised
                 THEN Catch("api")
                 ELSE IF r.value = <<>>
                 THEN /\ last_print' = "nodecks"
                      /\ pc' = "done"
                      /\ UNCHANGED <<deck_names, deck_index, dirs, error, notes,
                                     note_index, directory_path, title_counts>>
                 ELSE /\ deck_names' = r.value
                      /\ dirs' = dirs \cup makedirs(<<output_dir>>)
                      /\ deck_index' = 1
                      /\ pc' = "deck"
                      /\ UNCHANGED <<error, last_print, notes, note_index,
                                     directory_path, title_counts>>
    /\ UNCHANGED <<deck_name, title, files, log, probe>>

sanitized_parts_unfiltered(name) ==
    LET parts == split(name)
    IN  [i \in 1..Len(parts) |-> sanitize_filename(parts[i])]

\* [sanitize_filename(part) for part in parts if part]
sanitized_parts(name) ==
    LET parts == SelectSeq(split(name), LAMBDA part : part # <<>>)
    IN  [i \in 1..Len(parts) |-> sanitize_filename(parts[i])]

SkipDeckMkdir ==
    /\ last_print' = "nonotes"
    /\ NextDeck
    /\ dirs' = dirs \cup makedirs(<<output_dir>> \o sanitized_parts(deck_names[deck_index]))
    /\ UNCHANGED <<deck_names, error, note_index, directory_path, title_counts>>

\* if not notes: print(...); continue
SkipDeck ==
    /\ last_print' = "nonotes"
    /\ NextDeck
    /\ UNCHANGED <<deck_names, error, note_index, directory_path, title_counts, dirs>>

\* one iteration of the deck loop up to the note loop: get_notes_in_deck
\* (findNotes, then notesInfo unless there is no identifier), the skip of a
\* deck without notes, the deck's directory and the fresh title_counts
ProcessDeck ==
    /\ pc = "deck"
    /\ deck_name' = deck_names[deck_index]
    /\ \E found \in Responses(FindNotesResults), info \in Responses(NoteLists) :
          LET note_ids == anki_connect(found)
              notes_info == anki_connect(info)
          IN  IF note_ids.raised
              THEN /\ requests' = requests + 1
                   /\ Catch("api")
                   /\ UNCHANGED log
              ELSE IF note_ids.value = <<>>
              THEN /\ requests' = requests + 1
                   /\ notes' = <<>>
                   /\ log' = <<>>
                   /\ SkipDeck
              ELSE IF notes_info.raised
              THEN /\ requests' = requests + 2
                   /\ Catch("api")
                   /\ UNCHANGED log
              ELSE IF notes_info.value = <<>>
              THEN /\ requests' = requests + 2
                   /\ notes' = <<>>
                   /\ log' = <<>>
                   /\ SkipDeck
              ELSE /\ requests' = requests + 2
                   /\ notes' = notes_info.value
                   /\ log' = <<>>
                   /\ directory_path' = <<output_dir>> \o sanitized_parts(deck_name')
                   /\ dirs' = dirs \cup makedirs(directory_path')
                   /\ title_counts' = <<>>
                   /\ note_index' = 1
                   /\ pc' = "note"
                   /\ UNCHANGED <<deck_names, deck_index, error, last_print>>
    /\ UNCHANGED <<title, files, probe>>

dedup_filename_late(base_filename, count) ==
    IF count > 1
    THEN base_filename \o <<UNDERSCORE>> \o str(count) \o STR_md
    ELSE base_filename \o STR_md

\* the filename of a note whose base filename was seen count times before
dedup_filename(base_filename, count) ==
    IF count > 0
    THEN base_filename \o <<UNDERSCORE>> \o str(count) \o STR_md
    ELSE base_filename \o STR_md

\* one iteration of "for note in notes"
ProcessNote ==
    /\ pc = "note"
    /\ note_index <= Len(notes)
    /\ LET note == notes[note_index]
           front == note.front
           back == note.back
           note_id == note.noteId
           new_title == IF front # <<>>
                        THEN [bound |-> TRUE, value |-> clean_field(front)]
                        ELSE title
           truncated_title == IF front # <<>>
                              THEN truncate_title(new_title.value, MAX_LENGTH)
                              ELSE STR_Note_ \o str(note_id)
           content == IF back # <<>> THEN clean_field(back) ELSE <<>>
           base_filename == sanitize_filename(truncated_title)
           count == IF base_filename \in DOMAIN title_counts
                    THEN title_counts[base_filename] ELSE 0
           filename == dedup_filename(base_filename, count)
           full_path == normpath(directory_path \o <<filename>>)
       IN  /\ title' = new_title
           /\ log' = Append(log, [note |-> note, filename |-> filename, path |-> full_path])
           /\ title_counts' = (base_filename :> (count + 1)) @@ title_counts
           /\ IF new_title.bound
              THEN /\ files' = (full_path :> file_text(new_title.value, content)) @@ files
                   /\ last_print' = "saved"
                   /\ note_index' = note_index + 1
                   /\ UNCHANGED <<pc, error>>
              ELSE \* open() has created the file; the f-string reads the unbound title
                   /\ files' = (full_path :> <<>>) @@ files
                   /\ error' = "name"
                   /\ last_print' = "error"
                   /\ pc' = "done"
                   /\ UNCHANGED note_index
           /\ UNCHANGED <<deck_index, deck_names, notes, directory_path, dirs>>
    /\ UNCHANGED <<deck_name, requests, probe>>

\* the note loop is exhausted: on to the next deck.  notes, title_counts and
\* directory_path are not read again before lines 100, 112 and 108 assign
\* them anew; they are cleared here
EndDeck ==
    /\ pc = "note"
    /\ note_index > Len(notes)
    /\ NextDeck
    /\ notes' = <<>>
    /\ note_index' = 0
    /\ title_counts' = <<>>
    /\ directory_path' = <<>>
    /\ log' = <<>>
    /\ UNCHANGED <<deck_names, deck_name, title, files, dirs, requests, error,
                   last_print, probe>>

Next == Start \/ ProcessDeck \/ ProcessNote \/ EndDeck

Spec == Init /\ [][Next]_vars

(***************************************************************************)
(* Harness of the pure functions.                                          *)
(***************************************************************************)
\* 'a', ' ', '_', '.', '/', e-acute (inside the Latin range), U+0180 (just outside)
SanitizeAlphabet == {97, 32, 95, 46, 47, 233, 384}

\* 'a', ' '
TitleAlphabet == {97, 32}

MainIdle ==
    /\ pc = "idle"
    /\ deck_names = <<>>
    /\ deck_index = 0
    /\ deck_name = <<>>
    /\ notes = <<>>
    /\ note_index = 0
    /\ directory_path = <<>>
    /\ title_counts = <<>>
    /\ title = [bound |-> FALSE, value |-> <<>>]
    /\ files = <<>>
    /\ dirs = {}
    /\ requests = 0
    /\ error = "none"
    /\ last_print = "none"
    /\ log = <<>>

InitSanitize ==
    /\ MainIdle
    /\ \E name \in SeqsUpTo(SanitizeAlphabet, MaxNameLen) :
          probe = [op |-> "sanitize_filename", name |-> name, done |-> FALSE, result |-> <<>>]

CallSanitize ==
    /\ probe.op = "sanitize_filename"
    /\ ~probe.done
    /\ probe' = [probe EXCEPT !.done = TRUE, !.result = sanitize_filename(probe.name)]
    /\ UNCHANGED mainVars

NextSanitize == CallSanitize

SpecSanitize == InitSanitize /\ [][NextSanitize]_vars

InitTruncate ==
    /\ MainIdle
    /\ \E t \in SeqsUpTo(TitleAlphabet, MaxTitleLen), m \in 0..MaxTitleLen :
          probe = [op |-> "truncate_title", title |-> t, max_length |-> m,
                   done |-> FALSE, result |-> <<>>]

CallTruncate ==
    /\ probe.op = "truncate_title"
    /\ ~probe.done
    /\ probe' = [probe EXCEPT !.done = TRUE,
                              !.result = truncate_title(probe.title, probe.max_length)]
    /\ UNCHANGED mainVars

NextTruncate == CallTruncate

SpecTruncate == InitTruncate /\ [][NextTruncate]_vars

IsPrefix(p, s) == Len(p) <= Len(s) /\ p = SubSeq(s, 1, Len(p))

C6_TruncateBound ==
    (probe.op = "truncate_title" /\ probe.done) =>
        LET t == probe.title
            m == probe.max_length
            r == probe.result
        IN  /\ IsPrefix(r, t)
            /\ Len(r) <= m
            /\ (Len(t) > m /\ \A i \in 1..m : t[i] # SPACE) => Len(r) = m
            /\ Len(t) <= m => r = t

C6_Witness ==
    /\ probe.op = "truncate_title"
    /\ probe.done
    /\ Len(probe.title) > probe.max_length
    /\ probe.max_length = 3
    /\ \A i \in 1..3 : probe.title[i] # SPACE
    /\ Len(probe.result) = 3

(***************************************************************************)
(* C9 (as stated): when the text is longer than maxLength the result is    *)
(* the longest prefix of length <= maxLength that is immediately followed  *)
(* by a space; the hard cut only when there is no such prefix.             *)
(***************************************************************************)
\* lengths k of the prefixes of t that are immediately followed by a space
Boundaries(t, upto) == {k \in 0..upto : k < Len(t) /\ t[k + 1] = SPACE}

Longest(S) == CHOOSE k \in S : \A j \in S : j <= k

C9_CutAtOrBefore ==
    (probe.op = "truncate_title" /\ probe.done /\ Len(probe.title) > probe.max_length) =>
        LET t == probe.title
            m == probe.max_length
            B == Boundaries(t, m)
        IN  probe.result = IF B # {} THEN SubSeq(t, 1, Longest(B)) ELSE SubSeq(t, 1, m)

(***************************************************************************)
(* C9 (amended): when the text is longer than maxLength the result is the  *)
(* longest prefix of length < maxLength that is immediately followed by a  *)
(* space (a space at index maxLength is not looked at); the hard cut of    *)
(* maxLength characters only when the first maxLength characters hold no   *)
(* space.                                                                  *)
(***************************************************************************)
C9_CutBefore ==
    (probe.op = "truncate_title" /\ probe.done /\ Len(probe.title) > probe.max_length) =>
        LET t == probe.title
            m == probe.max_length
            B == Boundaries(t, m - 1)
        IN  probe.result = IF B # {} THEN SubSeq(t, 1, Longest(B)) ELSE SubSeq(t, 1, m)

\* "a a a" cut at 3: the character at index 3 is a space, the cut is at index 1
C9_Witness ==
    /\ probe.op = "truncate_title"
    /\ probe.done
    /\ probe.title = <<97, 32, 97, 32, 97>>
    /\ probe.max_length = 3
    /\ probe.result = <<97>>

(***************************************************************************)
(* Properties of main.  log holds, for the deck the note loop is in, the   *)
(* notes processed so far with the filename and path each was given.       *)
(***************************************************************************)
\* the title a note is to be filed under, before sanitizing
ExpectedTitle(note) ==
    IF note.front # <<>> THEN clean_field(note.front) ELSE STR_Note_ \o str(note.noteId)

\* the base filename a note derives
BaseOf(note) ==
    sanitize_filename(IF note.front # <<>>
                      THEN truncate_title(clean_field(note.front), MAX_LENGTH)
                      ELSE STR_Note_ \o str(note.noteId))

(***************************************************************************)
(* C1: the filenames given to the notes of one deck are pairwise distinct. *)
(***************************************************************************)
C1_DistinctFilenames ==
    \A i, j \in 1..Len(log) : i # j => log[i].filename # log[j].filename

(***************************************************************************)
(* C2: the file written for a note starts with a level-1 heading holding   *)
(* that note's own title: the rendered Front, or Note_<id> when Front is   *)
(* absent or empty.                                                        *)
(***************************************************************************)
C2_HeadingIsOwnTitle ==
    log # <<>> =>
        LET e == log[Len(log)]
        IN  /\ e.path \in DOMAIN files
            /\ IsPrefix(STR_hash \o ExpectedTitle(e.note) \o <<NEWLINE>>, files[e.path])

(***************************************************************************)
(* C3: within a deck, the k-th further note deriving a base filename b is  *)
(* given b_k.md and the first is given b.md, the count starting from zero  *)
(* in every deck.                                                          *)
(***************************************************************************)
C3_SuffixSequence ==
    \A i \in 1..Len(log) :
        LET b == BaseOf(log[i].note)
            k == Cardinality({j \in 1..(i - 1) : BaseOf(log[j].note) = b})
        IN  log[i].filename = IF k = 0 THEN b \o STR_md
                              ELSE b \o <<UNDERSCORE>> \o str(k) \o STR_md

\* three notes of the second deck share the base filename "Note"
C3_Witness ==
    /\ deck_index = 2
    /\ Len(log) = 3
    /\ \A i \in 1..3 : log[i].note.front = LongFront
    /\ log[1].filename = <<78, 111, 116, 101>> \o STR_md
    /\ log[3].filename = <<78, 111, 116, 101, 95, 50>> \o STR_md

(***************************************************************************)
(* C4: once a request has failed, the failure message is printed and the   *)
(* run is over: the failing step and every later step write no file and    *)
(* create no directory, and no later step posts a request.                 *)
(***************************************************************************)
C4_FailureEndsRun ==
    [][error' = "api" =>
          /\ files' = files
          /\ dirs' = dirs
          /\ last_print' = "error"
          /\ pc' = "done"
          /\ (error = "api" => requests' = requests)]_vars

\* a request for the second deck failed after files of the first were written
C4_Witness ==
    /\ error = "api"
    /\ DOMAIN files # {}
    /\ deck_index = 2
    /\ pc = "done"

(***************************************************************************)
(* C7: a deck for which the API returns no notes gets no directory and no  *)
(* file; the skip notice is printed and the loop goes on to the next deck. *)
(***************************************************************************)
C7_EmptyDeckSkipped ==
    [][(pc = "deck" /\ error' = "none" /\ notes' = <<>>) =>
          /\ files' = files
          /\ dirs' = dirs
          /\ last_print' = "nonotes"
          /\ deck_index' = deck_index + 1
          /\ pc' = IF deck_index < Len(deck_names) THEN "deck" ELSE "done"]_vars

\* the first of two decks was skipped: only the output root exists
C7_Witness ==
    /\ pc = "deck"
    /\ deck_index = 2
    /\ last_print = "nonotes"
    /\ dirs = {<<>>, <<output_dir>>}
    /\ DOMAIN files = {}

(***************************************************************************)
(* C8 (as stated): the directory of a deck with notes is the output root   *)
(* followed by one component per "::"-separated segment of the deck name,  *)
(* the i-th being sanitize_filename of the i-th segment.                   *)
(***************************************************************************)
C8_DirPerSegment ==
    pc = "note" =>
        LET segments == split(deck_name)
        IN  /\ Len(directory_path) = 1 + Len(segments)
            /\ directory_path[1] = output_dir
            /\ \A i \in 1..Len(segments) :
                  directory_path[i + 1] = sanitize_filename(segments[i])

(***************************************************************************)
(* C8 (amended): the directory of a deck with notes is the output root     *)
(* followed by one component per non-empty "::"-separated segment of the   *)
(* deck name, in order, the i-th being sanitize_filename of the i-th       *)
(* non-empty segment; empty segments give no component.                    *)
(***************************************************************************)
C8_DirPerNonEmptySegment ==
    pc = "note" =>
        LET segments == split(deck_name)
            kept == {i \in 1..Len(segments) : segments[i] # <<>>}
            rank(i) == Cardinality({j \in kept : j <= i})
        IN  /\ Len(directory_path) = 1 + Cardinality(kept)
            /\ directory_path[1] = output_dir
            /\ \A i \in kept : directory_path[1 + rank(i)] = sanitize_filename(segments[i])
            /\ normpath(directory_path) \in dirs

\* deck "a::b c" is written to markdown_output/a/b_c
C8_Witness ==
    /\ pc = "note"
    /\ deck_name = <<97, 58, 58, 98, 32, 99>>
    /\ directory_path = <<output_dir, <<97>>, <<98, 95, 99>>>>
    /\ DOMAIN files # {}

(***************************************************************************)
(* C10: every file written and every directory created lies inside the     *)
(* output root.                                                            *)
(***************************************************************************)
InsideRoot(path) == Len(path) >= 1 /\ path[1] = output_dir

C10_InsideOutputRoot ==
    /\ \A p \in DOMAIN files : Len(p) >= 2 /\ InsideRoot(p)
    /\ \A d \in dirs \ {<<>>} : InsideRoot(d)

====
